---- MODULE Spec2Model ----
(***************************************************************************)
(* A model of src/etl.py: the Spark job that turns the raw song metadata   *)
(* and the raw event log into the songs, artists, users, time and          *)
(* songplays tables.  One run of main() is a sequence of steps, one per    *)
(* eager read (spark.read.json) and one per Spark action (a write); a run  *)
(* ends at "done" or, on the first exception, at "failed".  The output     *)
(* location survives a run, so a later run finds what earlier runs left.   *)
(*                                                                         *)
(* A DataFrame is modelled as the sequence of its rows, a row as a record, *)
(* a SQL null as the value NULL.  The calendar columns of the time table   *)
(* (hour, day, week, month, year, weekday) are functions of the event's ts *)
(* and of the session's time zone alone; no property below reads them and  *)
(* they are left out of the time rows.                                     *)
(***************************************************************************)
EXTENDS Integers, Sequences, FiniteSets, TLC

\* Bounds of the model.
MaxSongs == 2
MaxEvents == 3
MaxRuns == 2
MaxPartitionIndex == 2

NULL == "NULL"

(***************************************************************************)
(* Inputs.  The raw song-metadata records and the raw log events a run may *)
(* find at its input location.                                             *)
(***************************************************************************)
SongRec(sid, title, aid, yr, dur, aname) ==
    [song_id |-> sid, title |-> title, artist_id |-> aid, year |-> yr,
     duration |-> dur, artist_name |-> aname, artist_location |-> "Oxford",
     artist_latitude |-> NULL, artist_longitude |-> NULL]

\* Two songs of one artist, a second record of song S1 with another title,
\* and a record whose artist_name is null.
SongUniverse ==
    << SongRec("S1", "Creep", "A1", 1992, "238.6", "Radiohead"),
       SongRec("S2", "Karma Police", "A1", 1997, "261.2", "Radiohead"),
       SongRec("S1", "Creep (Live)", "A1", 1992, "238.6", "Radiohead"),
       SongRec("S3", "Untitled", "A2", 0, "100.0", NULL) >>

LogRec(page, artist, uid, level, ts, sid) ==
    [page |-> page, artist |-> artist, userId |-> uid, firstName |-> "Ann",
     lastName |-> "Lee", gender |-> "F", level |-> level, ts |-> ts,
     sessionId |-> sid, location |-> "Oxford", userAgent |-> "Mozilla"]

\* A play of a known artist, a play by the same user one level later of an
\* artist whose name carries a trailing space (within the same second), a
\* page view of a user who never plays, and a play with no artist and a ts
\* before the epoch.
LogUniverse ==
    << LogRec("NextSong", "Radiohead", "10", "free", 1500, 1),
       LogRec("NextSong", "Radiohead ", "10", "paid", 1999, 2),
       LogRec("Home", NULL, "11", "free", 2500, 3),
       LogRec("NextSong", NULL, "12", "free", -1500, 4) >>

\* The collections of at most n records of universe u (a collection of files
\* has no order of its own: one sequence stands for each multiset).
Collections(u, n) ==
    UNION { { [i \in 1..k |-> u[ix[i]]] :
                ix \in { f \in [1..k -> DOMAIN u] :
                           \A i \in 1..k, j \in 1..k : i <= j => f[i] <= f[j] } } :
            k \in 0..n }

Tables == {"songs", "artists", "users", "time", "songplays"}

VARIABLES
    songFiles,   \* the records under input_data + "song_data/A/B/C/*"
    logFiles,    \* the records under input_data + "log_data/2018/11/*.json"
    pc,          \* the position of main()
    run,         \* the number of the current run of main()
    exists,      \* the tables whose destination path exists
    store,       \* the rows at each table's destination path
    written,     \* the tables this run has written, in order
    err,         \* why the run failed: [kind, at]
    prev,        \* the output location as the current run found it
    df,          \* process_song_data's df
    logs,        \* process_log_data's df
    song_df      \* process_log_data's song_df

vars == <<songFiles, logFiles, pc, run, exists, store, written, err, prev,
          df, logs, song_df>>

NoError == [kind |-> "none", at |-> "none"]

EmptyStore ==
    [songs |-> <<>>, artists |-> <<>>, users |-> <<>>, time |-> <<>>,
     songplays |-> <<>>]

Init ==
    /\ songFiles \in Collections(SongUniverse, MaxSongs)
    /\ logFiles \in Collections(LogUniverse, MaxEvents)
    /\ pc = "read_song_data"
    /\ run = 1
    /\ exists = {}
    /\ store = EmptyStore
    /\ written = <<>>
    /\ err = NoError
    /\ prev = [exists |-> {}, store |-> EmptyStore]
    /\ df = <<>>
    /\ logs = <<>>
    /\ song_df = <<>>


(***************************************************************************)
(* The transformations.                                                    *)
(***************************************************************************)

\* DataFrame.distinct() / dropDuplicates(): one row of each kind is kept.
RECURSIVE Distinct(_)
Distinct(rows) ==
    IF rows = <<>> THEN <<>>
    ELSE LET init == Distinct(SubSeq(rows, 1, Len(rows) - 1))
             last == rows[Len(rows)]
         IN  IF \E i \in DOMAIN init : init[i] = last THEN init
             ELSE Append(init, last)

\* df.select('song_id', 'title', 'artist_id', 'year', 'duration')
SongRow(r) ==
    [song_id |-> r.song_id, title |-> r.title, artist_id |-> r.artist_id,
     year |-> r.year, duration |-> r.duration]

\* distinct() that compares the song_id alone.
RECURSIVE DistinctBySongId(_)
DistinctBySongId(rows) ==
    IF rows = <<>> THEN <<>>
    ELSE LET init == DistinctBySongId(SubSeq(rows, 1, Len(rows) - 1))
             last == rows[Len(rows)]
         IN  IF \E i \in DOMAIN init : init[i].song_id = last.song_id THEN init
             ELSE Append(init, last)

SongsTableByKey(d) == DistinctBySongId([i \in DOMAIN d |-> SongRow(d[i])])

SongsTable(d) == Distinct([i \in DOMAIN d |-> SongRow(d[i])])

\* df.select('artist_id', 'artist_name', 'artist_location', ...)
ArtistRow(r) ==
    [artist_id |-> r.artist_id, artist_name |-> r.artist_name,
     artist_location |-> r.artist_location,
     artist_latitude |-> r.artist_latitude,
     artist_longitude |-> r.artist_longitude]

ArtistsTable(d) == Distinct([i \in DOMAIN d |-> ArtistRow(d[i])])

\* A filter that drops nothing.
FilterKeepsAll(d) == d

\* df.filter(df.page == "NextSong"): a null page compares to null, not true.

Filter(d) == SelectSeq(d, LAMBDA e : e.page # NULL /\ e.page = "NextSong")

\* df.select('userId', 'firstName', 'lastName', 'gender', 'level')
UserRow(e) ==
    [userId |-> e.userId, firstName |-> e.firstName, lastName |-> e.lastName,
     gender |-> e.gender, level |-> e.level]

UsersTable(d) == Distinct([i \in DOMAIN d |-> UserRow(d[i])])

\* Python's str of an integer, as the sequence of its characters.
Digit == <<"0", "1", "2", "3", "4", "5", "6", "7", "8", "9">>

RECURSIVE NatStr(_)
NatStr(n) ==
    IF n < 10 THEN <<Digit[n + 1]>>
    ELSE Append(NatStr(n \div 10), Digit[(n % 10) + 1])

Str(n) == IF n < 0 THEN <<"-">> \o NatStr(-n) ELSE NatStr(n)

\* Python's int(x) of the float x = a / b: the fraction is cut off, which
\* rounds toward zero.  (a / b is the nearest double; for |a| < 2^53 and
\* b = 1000 its integer part is that of the exact quotient.)
IntOfQuotient(a, b) == IF a >= 0 THEN a \div b ELSE -((-a) \div b)

\* get_timestamp = udf(lambda x: str(int(int(x)/1000)))
GetTimestamp(x) == Str(IntOfQuotient(x, 1000))

TimeRow(e) == [timestamp |-> GetTimestamp(e.ts)]

\* A time table with distinct() applied.
TimeTableDistinct(d) == Distinct([i \in DOMAIN d |-> TimeRow(d[i])])

\* time_table = df.select('timestamp', ...): no distinct()
TimeTable(d) == [i \in DOMAIN d |-> TimeRow(d[i])]

\* to_timestamp(logs_data.ts/1000): the instant ts milliseconds after the
\* epoch, as whole seconds and the milliseconds within the second.
ToTimestamp(ts) == [seconds |-> ts \div 1000, millis |-> ts % 1000]

\* A join without its ON condition.
JoinOnMissing(e, s) == TRUE

\* ON logs_data.artist = songs_data.artist_name: SQL equality, which a null
\* on either side does not satisfy.

JoinOn(e, s) ==
    /\ e.artist # NULL
    /\ s.artist_name # NULL
    /\ e.artist = s.artist_name

\* The SELECT list of the songplays query, without songplay_id.
FactRow(e, s) ==
    [start_time |-> ToTimestamp(e.ts), user_id |-> e.userId, level |-> e.level,
     song_id |-> s.song_id, artist_id |-> s.artist_id,
     session_id |-> e.sessionId, location |-> e.location,
     user_agent |-> e.userAgent]

\* logs_data JOIN songs_data: an inner join, one row per matching pair.  The
\* rows are listed by event, then by song record; the order Spark emits them
\* in is not fixed, and songplay_id is assigned by the emitted position.
RECURSIVE JoinFrom(_, _, _, _)
JoinFrom(l, s, i, j) ==
    IF i > Len(l) THEN <<>>
    ELSE IF j > Len(s) THEN JoinFrom(l, s, i + 1, 1)
    ELSE (IF JoinOn(l[i], s[j]) THEN <<FactRow(l[i], s[j])>> ELSE <<>>)
         \o JoinFrom(l, s, i, j + 1)

Join(l, s) == JoinFrom(l, s, 1, 1)

\* An id that numbers the rows within their partition only.
IdWithinPartition(partition, position) == [upper |-> 0, lower |-> position]

\* monotonically_increasing_id(): a 64-bit integer whose upper 31 bits hold
\* the partition's index and whose lower 33 bits the row's position within
\* the partition.  The two fields are kept apart; the integer is
\* upper * 2^33 + lower.
MonotonicallyIncreasingId(partition, position) ==
    [upper |-> partition, lower |-> position]

\* The order of two ids as 64-bit integers (lower < 2^33).
IdLess(a, b) == a.upper < b.upper \/ (a.upper = b.upper /\ a.lower < b.lower)

WithId(row, id) ==
    [songplay_id |-> id, start_time |-> row.start_time,
     user_id |-> row.user_id, level |-> row.level, song_id |-> row.song_id,
     artist_id |-> row.artist_id, session_id |-> row.session_id,
     location |-> row.location, user_agent |-> row.user_agent]

\* The joined rows as Spark emits them: rows 1..k in partition 0, the rest in
\* partition p.
SongplaysTable(rows, k, p) ==
    [i \in DOMAIN rows |->
        WithId(rows[i],
               IF i <= k THEN MonotonicallyIncreasingId(0, i - 1)
               ELSE MonotonicallyIncreasingId(p, i - k - 1))]


(***************************************************************************)
(* The steps of main().                                                    *)
(***************************************************************************)

\* An exception ends the run: nothing catches it.
Raise(kind, at) ==
    /\ pc' = "failed"
    /\ err' = [kind |-> kind, at |-> at]

\* DataFrameWriter.parquet(path, mode): with mode "overwrite" the rows
\* replace what the path holds; with no mode given the mode is "error", and
\* the write raises when the path exists already.  A write the storage
\* refuses for a reason of its own raises too and leaves the table as it was.
Write(t, rows, mode, next) ==
    IF mode = "error" /\ t \in exists
    THEN /\ Raise("path_exists", t)
         /\ UNCHANGED <<exists, store, written>>
    ELSE \E refused \in BOOLEAN :
            IF refused
            THEN /\ Raise("write", t)
                 /\ UNCHANGED <<exists, store, written>>
            ELSE /\ exists' = exists \cup {t}
                 /\ store' = [store EXCEPT ![t] = rows]
                 /\ written' = Append(written, t)
                 /\ pc' = next
                 /\ UNCHANGED err

\* The step that goes on without writing the table.
SkipWrite(next) ==
    /\ pc' = next
    /\ UNCHANGED <<exists, store, written, err>>

\* spark.read.json(path) lists the files and infers the columns at once: it
\* raises when the location cannot be read, and a location that holds no
\* record gives no DataFrame with the columns the job selects.
Readable(files) == IF files = <<>> THEN {FALSE} ELSE BOOLEAN

\* df = spark.read.json(song_data)
ReadSongData ==
    /\ pc = "read_song_data"
    /\ \E readable \in Readable(songFiles) :
          IF readable
          THEN /\ df' = songFiles
               /\ pc' = "write_songs"
               /\ UNCHANGED err
          ELSE /\ Raise("read", "song_data")
               /\ UNCHANGED df
    /\ UNCHANGED <<songFiles, logFiles, run, exists, store, written, prev,
                   logs, song_df>>

\* songs_table.write.partitionBy('year', 'artist_id').parquet(path = ...)
WriteSongs ==
    /\ pc = "write_songs"
    /\ Write("songs", SongsTable(df), "error", "write_artists")
    /\ UNCHANGED <<songFiles, logFiles, run, prev, df, logs, song_df>>

\* process_song_data without its write of artists.
WriteArtistsSkipped ==
    /\ pc = "write_artists"
    /\ SkipWrite("read_log_data")
    /\ UNCHANGED <<songFiles, logFiles, run, prev, df, logs, song_df>>

\* artists_table.write.parquet(path = ...)
WriteArtists ==
    /\ pc = "write_artists"
    /\ Write("artists", ArtistsTable(df), "error", "read_log_data")
    /\ UNCHANGED <<songFiles, logFiles, run, prev, df, logs, song_df>>

\* df = spark.read.json(log_data); df = df.filter(df.page == "NextSong")
ReadLogData ==
    /\ pc = "read_log_data"
    /\ \E readable \in Readable(logFiles) :
          IF readable
          THEN /\ logs' = Filter(logFiles)
               /\ pc' = "write_users"
               /\ UNCHANGED err
          ELSE /\ Raise("read", "log_data")
               /\ UNCHANGED logs
    /\ UNCHANGED <<songFiles, logFiles, run, exists, store, written, prev,
                   df, song_df>>

\* process_log_data without its write of users.
WriteUsersSkipped ==
    /\ pc = "write_users"
    /\ SkipWrite("write_time")
    /\ UNCHANGED <<songFiles, logFiles, run, prev, df, logs, song_df>>

\* users_table.write.parquet(output_data + "users.parquet", mode="overwrite")
WriteUsers ==
    /\ pc = "write_users"
    /\ Write("users", UsersTable(logs), "overwrite", "write_time")
    /\ UNCHANGED <<songFiles, logFiles, run, prev, df, logs, song_df>>

\* time_table.write.parquet(path = output_data + 'time/time.parquet')
WriteTime ==
    /\ pc = "write_time"
    /\ Write("time", TimeTable(logs), "error", "reread_song_data")
    /\ UNCHANGED <<songFiles, logFiles, run, prev, df, logs, song_df>>

\* song_df = spark.read.json(song_data)
RereadSongData ==
    /\ pc = "reread_song_data"
    /\ \E readable \in Readable(songFiles) :
          IF readable
          THEN /\ song_df' = songFiles
               /\ pc' = "write_songplays"
               /\ UNCHANGED err
          ELSE /\ Raise("read", "song_data_reread")
               /\ UNCHANGED song_df
    /\ UNCHANGED <<songFiles, logFiles, run, exists, store, written, prev,
                   df, logs>>

\* songplays_table.write.parquet(os.path.join(...), 'overwrite')
WriteSongplays ==
    /\ pc = "write_songplays"
    /\ \E k \in 0..Len(Join(logs, song_df)), p \in 1..MaxPartitionIndex :
          Write("songplays", SongplaysTable(Join(logs, song_df), k, p),
                "overwrite", "done")
    /\ UNCHANGED <<songFiles, logFiles, run, prev, df, logs, song_df>>

\* main() is started again, on the same inputs and the same output location.
Rerun ==
    /\ pc \in {"done", "failed"}
    /\ run < MaxRuns
    /\ run' = run + 1
    /\ pc' = "read_song_data"
    /\ written' = <<>>
    /\ err' = NoError
    /\ prev' = [exists |-> exists, store |-> store]
    /\ df' = <<>>
    /\ logs' = <<>>
    /\ song_df' = <<>>
    /\ UNCHANGED <<songFiles, logFiles, exists, store>>

Next ==
    \/ ReadSongData
    \/ WriteSongs
    \/ WriteArtists
    \/ ReadLogData
    \/ WriteUsers
    \/ WriteTime
    \/ RereadSongData
    \/ WriteSongplays
    \/ Rerun

Spec == Init /\ [][Next]_vars


(***************************************************************************)
(* The properties.                                                         *)
(***************************************************************************)

\* The log events with page == "NextSong", by their place in the input.
Retained == {i \in DOMAIN logFiles : logFiles[i].page = "NextSong"}

\* The song records whose artist_name is exactly event e's artist.
Matches(e) ==
    {j \in DOMAIN songFiles :
        /\ e.artist # NULL
        /\ songFiles[j].artist_name # NULL
        /\ e.artist = songFiles[j].artist_name}

\* Row r passes event e's user_id, level, session_id, location, user_agent.
PassesThrough(r, e) ==
    /\ r.user_id = e.userId
    /\ r.level = e.level
    /\ r.session_id = e.sessionId
    /\ r.location = e.location
    /\ r.user_agent = e.userAgent

\* The integer a string of decimal digits denotes.
RECURSIVE NatVal(_)
NatVal(s) ==
    IF s = <<>> THEN 0
    ELSE 10 * NatVal(SubSeq(s, 1, Len(s) - 1))
         + (CHOOSE d \in 0..9 : Digit[d + 1] = s[Len(s)])

Num(s) == IF s[1] = "-" THEN -NatVal(Tail(s)) ELSE NatVal(s)

NoTwoEqual(rows) ==
    \A i \in DOMAIN rows, j \in DOMAIN rows : i # j => rows[i] # rows[j]

Range(q) == {q[i] : i \in DOMAIN q}

TableOrder == <<"songs", "artists", "users", "time", "songplays">>

\* C1: after a run that completed, the songplays table has as many rows as
\* there are log events with page == "NextSong".
C1_RowPerRetainedEvent ==
    pc = "done" => Len(store.songplays) = Cardinality(Retained)

\* C2: after a run that completed, every retained event whose artist equals
\* no song record's artist_name has a songplays row with null song_id and
\* artist_id that passes the event's columns through.
C2_UnmatchedEventKeepsNullRow ==
    pc = "done" =>
        \A i \in Retained :
            Matches(logFiles[i]) = {} =>
                \E n \in DOMAIN store.songplays :
                    /\ store.songplays[n].song_id = NULL
                    /\ store.songplays[n].artist_id = NULL
                    /\ PassesThrough(store.songplays[n], logFiles[i])

\* Table contents, ignoring the songplay_id values.
SameContents(a, b) ==
    /\ \A t \in Tables \ {"songplays"} : a[t] = b[t]
    /\ Len(a.songplays) = Len(b.songplays)
    /\ \A n \in DOMAIN a.songplays :
          [a.songplays[n] EXCEPT !.songplay_id = 0]
              = [b.songplays[n] EXCEPT !.songplay_id = 0]

\* C3: a run that finds the five tables of an earlier run, and that neither
\* a read nor the storage fails, completes and leaves every table with the
\* contents it found.
C3_RerunIdempotent ==
    (/\ run > 1
     /\ prev.exists = Tables
     /\ pc \in {"done", "failed"}
     /\ err.kind \notin {"read", "write"})
        => /\ pc = "done"
           /\ exists = Tables
           /\ SameContents(store, prev.store)

\* The tables outside the set ts are as the run found them.
Untouched(ts) ==
    \A t \in Tables \ ts :
        /\ store[t] = prev.store[t]
        /\ t \in exists <=> t \in prev.exists

\* C4 as stated: a run that ends with a source read error has written no
\* table and changed none.
C4_ReadErrorBeforeAnyWrite ==
    (pc = "failed" /\ err.kind = "read") => written = <<>> /\ Untouched({})

\* C4 as amended: a run that ends with a source read error has written no
\* table when the first read of the song metadata failed, exactly songs and
\* artists when the read of the log events failed, and exactly songs,
\* artists, users and time when the second read of the song metadata
\* failed; the other tables are as the run found them, songplays among them.
C4_ReadErrorWrites ==
    (pc = "failed" /\ err.kind = "read") =>
        /\ err.at = "song_data" => written = <<>>
        /\ err.at = "log_data" => written = <<"songs", "artists">>
        /\ err.at = "song_data_reread"
              => written = <<"songs", "artists", "users", "time">>
        /\ "songplays" \notin Range(written)
        /\ Untouched(Range(written))

C4_Witness ==
    /\ pc = "failed"
    /\ err = [kind |-> "read", at |-> "log_data"]
    /\ written = <<"songs", "artists">>
    /\ logFiles # <<>>

\* C5: the songs table holds no two equal rows, each row is the (song_id,
\* title, artist_id, year, duration) projection of an input record, and the
\* projection of every input record is a row.
C5_SongsDistinctProjection ==
    "songs" \in exists =>
        /\ NoTwoEqual(store.songs)
        /\ \A n \in DOMAIN store.songs : \E j \in DOMAIN songFiles :
              /\ DOMAIN store.songs[n]
                    = {"song_id", "title", "artist_id", "year", "duration"}
              /\ \A c \in DOMAIN store.songs[n] :
                    store.songs[n][c] = songFiles[j][c]
        /\ \A j \in DOMAIN songFiles : \E n \in DOMAIN store.songs :
              \A c \in DOMAIN store.songs[n] :
                  store.songs[n][c] = songFiles[j][c]

\* Two records share a song_id and differ in the title: both are rows.
C5_Witness ==
    /\ "songs" \in exists
    /\ Len(store.songs) = 2
    /\ store.songs[1].song_id = store.songs[2].song_id
    /\ store.songs[1].title # store.songs[2].title


\* C6: each row of the users table is the (userId, firstName, lastName,
\* gender, level) projection of a log event with page == "NextSong", no two
\* rows are equal, a user without such an event has no row, and every level
\* a user's retained events carry has a row.
C6_UsersFromRetainedEvents ==
    "users" \in exists =>
        /\ NoTwoEqual(store.users)
        /\ \A n \in DOMAIN store.users : \E i \in Retained :
              /\ DOMAIN store.users[n]
                    = {"userId", "firstName", "lastName", "gender", "level"}
              /\ \A c \in DOMAIN store.users[n] :
                    store.users[n][c] = logFiles[i][c]
        /\ \A i \in DOMAIN logFiles :
              (\A k \in DOMAIN logFiles :
                    logFiles[k].userId = logFiles[i].userId => k \notin Retained)
                 => \A n \in DOMAIN store.users :
                        store.users[n].userId # logFiles[i].userId
        /\ \A i \in Retained : \E n \in DOMAIN store.users :
              /\ store.users[n].userId = logFiles[i].userId
              /\ store.users[n].level = logFiles[i].level

\* One user played at two levels and another only viewed a page: the table
\* has a row for each level of the first and none for the second.
C6_Witness ==
    /\ "users" \in exists
    /\ Len(store.users) = 2
    /\ store.users[1].userId = store.users[2].userId
    /\ store.users[1].level # store.users[2].level
    /\ \E i \in DOMAIN logFiles : logFiles[i].userId # store.users[1].userId

\* The rows of the time table whose timestamp denotes v, and the retained
\* events whose ts gives v under the division q.
TimeRowsOf(v) ==
    {n \in DOMAIN store.time : Num(store.time[n].timestamp) = v}

Floor(ts) == ts \div 1000

TowardZero(ts) == IF ts >= 0 THEN ts \div 1000 ELSE -((-ts) \div 1000)

C8_MatchedRowFromOnePair ==
    "songplays" \in exists =>
        \A n \in DOMAIN store.songplays :
            store.songplays[n].song_id # NULL =>
                \E i \in Retained : \E j \in Matches(logFiles[i]) :
                    /\ store.songplays[n].song_id = songFiles[j].song_id
                    /\ store.songplays[n].artist_id = songFiles[j].artist_id
                    /\ PassesThrough(store.songplays[n], logFiles[i])

C8_Witness ==
    /\ pc = "done"
    /\ \E n \in DOMAIN store.songplays :
          /\ store.songplays[n].song_id = "S1"
          /\ store.songplays[n].artist_id = "A1"
          /\ store.songplays[n].user_id = "10"

\* C9: the songplay_id values of the songplays table increase strictly over
\* the rows as emitted, so no two rows share one.
C9_SongplayIdsIncrease ==
    "songplays" \in exists =>
        \A n \in DOMAIN store.songplays, m \in DOMAIN store.songplays :
            n < m =>
                /\ IdLess(store.songplays[n].songplay_id,
                          store.songplays[m].songplay_id)
                /\ store.songplays[n].songplay_id
                      # store.songplays[m].songplay_id

\* One log event gave two rows, emitted in two partitions.
C9_Witness ==
    /\ pc = "done"
    /\ Cardinality(Retained) = 1
    /\ Len(store.songplays) = 2
    /\ store.songplays[1].songplay_id.upper
          # store.songplays[2].songplay_id.upper

IsPrefix(p, q) == Len(p) <= Len(q) /\ \A i \in DOMAIN p : p[i] = q[i]

\* C10: the tables a run has written are, in order, a prefix of songs,
\* artists, users, time, songplays, at every point of the run and after it
\* failed; once the log events are read, songs and artists are written; a
\* run that completes has written all five.
C10_WritesInFixedOrder ==
    /\ IsPrefix(written, TableOrder)
    /\ Range(written) \subseteq exists
    /\ (pc \in {"write_users", "write_time", "reread_song_data",
                "write_songplays", "done"}
          \/ (pc = "failed" /\ err.at \in {"users", "time", "song_data_reread",
                                           "songplays"}))
          => Len(written) >= 2
    /\ pc = "done" => written = TableOrder

\* A run that failed at the write of time: songs, artists and users only.
C10_Witness ==
    /\ pc = "failed"
    /\ err.at = "time"
    /\ written = <<"songs", "artists", "users">>

====
